---- MODULE Spec2Model ----
(***************************************************************************)
(* Model of the clusterfuck compiler pipeline (package parser):            *)
(*   Tokenize -> ParseTokens -> Encode                                     *)
(* and of the virtual machine described by the code fragments that the     *)
(* nodes' Code() methods emit.  The modelled version is the last one in    *)
(* src/parser/parser.go (lines 332-776), the one with function nodes.      *)
(***************************************************************************)
EXTENDS Integers, Sequences, FiniteSets, TLC

VARIABLES input, pc, tokens, result, code,
          currentIndex, registers, vmStatus, steps, lastExec

vars == <<input, pc, tokens, result, code,
          currentIndex, registers, vmStatus, steps, lastExec>>

pipeVars == <<input, pc, tokens, result, code>>
vmVars == <<currentIndex, registers, vmStatus, steps, lastExec>>

-----------------------------------------------------------------------------
(* Bounds of the model *)

\* longest source text over the whole alphabet, in characters
MaxLen == 3
\* longest source text over the nesting alphabet, in characters
MaxNestLen == 5
\* number of fragments the virtual machine executes
MaxSteps == 3
\* largest repetition count of an executed fragment
MaxCount == 3

-----------------------------------------------------------------------------
(* Source characters.  "#" stands for any unrecognized one-byte character  *)
(* and "U2" for any unrecognized two-byte rune.                            *)

Recognized == {"+", "-", "<", ">", "[", "]", "{", "}", "!", ".", ","}
Alphabet == Recognized \cup {"#", "U2"}
\* the characters of the longer texts, which are there for their nesting
NestAlphabet == {"+", "[", "]", "{", "}", "."}

\* len(string(c))
RuneLen(c) == IF c = "U2" THEN 2 ELSE 1

\* the node type that Tokenize's switch constructs for a character
KindOf(c) ==
  CASE c = "+" -> "Inc"
    [] c = "-" -> "Dec"
    [] c = "<" -> "Prev"
    [] c = ">" -> "Next"
    [] c = "[" -> "LoopOpen"
    [] c = "]" -> "LoopClose"
    [] c = "{" -> "FuncOpen"
    [] c = "}" -> "FuncClose"
    [] c = "!" -> "FuncExec"
    [] c = "." -> "Output"
    [] c = "," -> "Input"
    [] OTHER -> "none"

\* types that embed BaseCountable, i.e. implement Summarizable
Summarizable(kind) == kind \in {"Inc", "Dec", "Prev", "Next"}

\* types that have a Code() method, i.e. implement Encodable
Encodable(kind) ==
  kind \in {"Preamble", "Postamble", "Inc", "Dec", "Prev", "Next", "Output",
            "Input", "Loop", "Function", "FuncExec"}

\* a node: BaseNode{start, end}, BaseCountable{count}, the preamble's flags
\* and the children of a LoopNode / FunctionNode
MkNode(kind, start, end, count) ==
  [kind |-> kind, start |-> start, end |-> end, count |-> count,
   UseIO |-> FALSE, UseFmt |-> FALSE, Nodes |-> <<>>]

\* reflect.TypeOf(t.lastNode) == reflect.TypeOf(n)
SameTypeAlways(last, n) == TRUE
SameType(last, n) == last.kind = n.kind

\* TokenList: Nodes and lastNode, a pointer into Nodes (0 is nil)
EmptyTokenList == [Nodes |-> <<>>, lastNode |-> 0]

\* BaseCountable.Add
Add(n) == [n EXCEPT !.count = @ + 1]

\* TokenList.Append
TokenAppend(t, n) ==
  IF Summarizable(n.kind) /\ t.lastNode # 0 /\ SameType(t.Nodes[t.lastNode], n)
  THEN [t EXCEPT !.Nodes[t.lastNode] = Add(@)]
  ELSE [Nodes |-> Append(t.Nodes, n), lastNode |-> Len(t.Nodes) + 1]

\* the body of Tokenize's range loop: k is the rune's number, i its byte offset
RECURSIVE TokenizeFrom(_, _, _, _)
TokenizeFrom(s, k, i, t) ==
  IF k > Len(s) THEN t
  ELSE LET c == s[k]
           end == i + RuneLen(c)
           kind == KindOf(c)
           t2 == IF kind = "none" THEN t
                 ELSE TokenAppend(t, MkNode(kind, i, end,
                                     IF Summarizable(kind) THEN 1 ELSE 0))
       IN TokenizeFrom(s, k + 1, end, t2)

Tokenize(s) ==
  LET t0 == TokenAppend(EmptyTokenList, MkNode("Preamble", 0, 0, 0))
      t1 == TokenizeFrom(s, 1, 0, t0)
  IN TokenAppend(t1, MkNode("Postamble", 0, 0, 0))

-----------------------------------------------------------------------------
(* Parser *)

\* what ParseTokens hands back: (p, skip, err), or a run-time panic that
\* unwinds through every caller.  FaultyNode and Message are the ParseError's.
NoNode == MkNode("nil", 0, 0, 0)

Ok(p, skip) ==
  [status |-> "ok", Nodes |-> p, skip |-> skip, FaultyNode |-> NoNode,
   Message |-> "", panic |-> ""]

\* parseError, returned as "return nil, 0, parseError(...)"
parseError(n, msg) ==
  [status |-> "error", Nodes |-> <<>>, skip |-> 0, FaultyNode |-> n,
   Message |-> msg, panic |-> ""]

\* "return nil, 0, err" for an error of the recursive call
Propagate(r) == [r EXCEPT !.Nodes = <<>>, !.skip = 0]

Panic(what) ==
  [status |-> "panic", Nodes |-> <<>>, skip |-> 0, FaultyNode |-> NoNode,
   Message |-> "", panic |-> what]

\* the case of ParseTokens' type switch that a node selects
TypeSwitch(kind) ==
  CASE kind = "LoopOpen" -> "LoopOpen"
    [] kind = "LoopClose" -> "LoopClose"
    [] kind = "FuncOpen" -> "FuncOpen"
    [] kind = "FuncClose" -> "FuncClose"
    [] kind = "Input" -> "Input"
    [] kind = "Output" -> "Output"
    [] Encodable(kind) -> "Encodable"
    [] OTHER -> "none"

\* &LoopNode{BaseNode{p2.Nodes[0].Pos(), p2.Nodes[len(p2.Nodes)-1].End()}, p2.Nodes}
\* (and the same for &FunctionNode); the caller has checked len(p2.Nodes) > 0
Container(kind, children) ==
  [MkNode(kind, children[1].start, children[Len(children)].end, 0)
     EXCEPT !.Nodes = children]

\* the closer's case at nesting > 0: "return p, i+1, nil", i counted from 0;
\* k is the closer's place in the list, counted from 1
CloseReturnAppending(p, n, k) == Ok(Append(p, n), k)
CloseReturn(p, n, k) == Ok(p, k)

\* the value of i after "i += skip" and the loop's "i++", counted from 1
NextIndex(k, skip) == k + skip + 1

\* p.Nodes[0].(*PreambleNode).<flag> = true; p.Append(unknownNode)
MarkAndAppend(p, n, flag) ==
  IF Len(p) = 0 THEN Panic("p.Nodes[0]: index out of range")
  ELSE IF p[1].kind # "Preamble" THEN Panic("p.Nodes[0].(*PreambleNode): interface conversion")
  ELSE Ok(Append(IF flag = "UseIO" THEN [p EXCEPT ![1].UseIO = TRUE]
                                   ELSE [p EXCEPT ![1].UseFmt = TRUE], n), 0)

\* the for loop of ParseTokens from place k on (counted from 1), with the
\* ParseList built so far
RECURSIVE ParseFrom(_, _, _, _)
ParseFrom(nodes, nesting, k, p) ==
  IF k > Len(nodes) THEN Ok(p, 0)
  ELSE
    LET n == nodes[k]
        c == TypeSwitch(n.kind)
    IN
      IF c \in {"LoopOpen", "FuncOpen"} THEN
        LET r == ParseFrom(SubSeq(nodes, k + 1, Len(nodes)), nesting + 1, 1, <<>>)
        IN IF r.status # "ok" THEN Propagate(r)
           ELSE IF Len(r.Nodes) = 0 THEN Panic("p2.Nodes[0]: index out of range")
           ELSE ParseFrom(nodes, nesting, NextIndex(k, r.skip),
                          Append(p, Container(IF c = "LoopOpen" THEN "Loop"
                                              ELSE "Function", r.Nodes)))
      ELSE IF c = "LoopClose" THEN
        IF nesting = 0 THEN parseError(n, "Loop closed while not open")
        ELSE CloseReturn(p, n, k)
      ELSE IF c = "FuncClose" THEN
        IF nesting = 0 THEN parseError(n, "Func closed while not open")
        ELSE CloseReturn(p, n, k)
      ELSE IF c \in {"Input", "Output"} THEN
        LET m == MarkAndAppend(p, n, IF c = "Input" THEN "UseIO" ELSE "UseFmt")
        IN IF m.status # "ok" THEN m
           ELSE ParseFrom(nodes, nesting, k + 1, m.Nodes)
      ELSE IF c = "Encodable" THEN ParseFrom(nodes, nesting, k + 1, Append(p, n))
      ELSE ParseFrom(nodes, nesting, k + 1, p)

ParseTokens(t, nesting) == ParseFrom(t.Nodes, nesting, 1, <<>>)

\* Parse drops the skip count: "p, _, err := ParseTokens(t, 0); return p, err"
Parse(s) == [ParseTokens(Tokenize(s), 0) EXCEPT !.skip = 0]

-----------------------------------------------------------------------------
(* Encoder.  The emitted text is kept as the sequence of its statements;   *)
(* each records its argument and the packages it refers to.                *)

Line(stmt, arg, uses) == [stmt |-> stmt, arg |-> arg, uses |-> uses]

Emitted(lines) == [status |-> "ok", lines |-> lines]
CastPanic == [status |-> "panic", lines |-> <<>>]

\* PreambleNode.Code
PreambleCode(n) ==
  <<Line("package", "main", {}), Line("import", "os", {})>>
  \o (IF n.UseIO THEN <<Line("import", "io", {})>> ELSE <<>>)
  \o (IF n.UseFmt THEN <<Line("import", "fmt", {})>> ELSE <<>>)
  \o <<Line("main-begin", "", {})>>

\* PostambleNode.Code
PostambleCode(n) == <<Line("sync", "", {"os"}), Line("main-end", "", {})>>

\* the Code methods of the leaves
LeafCode(n) ==
  CASE n.kind = "Preamble" -> PreambleCode(n)
    [] n.kind = "Postamble" -> PostambleCode(n)
    [] n.kind = "Inc" -> <<Line("inc", n.count, {})>>
    [] n.kind = "Dec" -> <<Line("dec", n.count, {})>>
    [] n.kind = "Prev" -> <<Line("prev", n.count, {})>>
    [] n.kind = "Next" -> <<Line("next", n.count, {})>>
    [] n.kind = "Output" -> <<Line("print", "", {"fmt"})>>
    [] n.kind = "Input" -> <<Line("scan", "", {"fmt", "io"})>>
    [] n.kind = "FuncExec" -> <<Line("call", "", {})>>

\* LoopNode.Code and FunctionNode.Code: header, then node.(Encodable).Code()
\* of every child (the cast is unchecked), then footer
RECURSIVE Code(_)
RECURSIVE ChildrenCode(_, _, _)
ChildrenCode(nodes, k, acc) ==
  IF k > Len(nodes) THEN Emitted(acc)
  ELSE IF ~Encodable(nodes[k].kind) THEN CastPanic
  ELSE LET r == Code(nodes[k])
       IN IF r.status # "ok" THEN r
          ELSE ChildrenCode(nodes, k + 1, acc \o r.lines)

Code(n) ==
  IF n.kind \in {"Loop", "Function"} THEN
    LET open == IF n.kind = "Loop" THEN "loop-begin" ELSE "func-begin"
        close == IF n.kind = "Loop" THEN "loop-end" ELSE "func-end"
        r == ChildrenCode(n.Nodes, 1, <<Line(open, "", {})>>)
    IN IF r.status # "ok" THEN r
       ELSE Emitted(r.lines \o <<Line(close, "", {})>>)
  ELSE Emitted(LeafCode(n))

\* Encode: the checked cast skips a node that is not Encodable
RECURSIVE EncodeFrom(_, _, _)
EncodeFrom(nodes, k, acc) ==
  IF k > Len(nodes) THEN Emitted(acc)
  ELSE IF ~Encodable(nodes[k].kind) THEN EncodeFrom(nodes, k + 1, acc)
  ELSE LET r == Code(nodes[k])
       IN IF r.status # "ok" THEN r
          ELSE EncodeFrom(nodes, k + 1, acc \o r.lines)

Encode(t) == EncodeFrom(t, 1, <<>>)

-----------------------------------------------------------------------------
(* The virtual machine of the emitted program: the preamble declares       *)
(* registers := make([]byte, REGISTERS) and currentIndex := 0, and every   *)
(* countable node emits one fragment over them.                            *)

REGISTERS == 100
ByteRange == 256

\* Go's %, which truncates toward zero
GoRem(a, m) == IF a >= 0 THEN a % m ELSE -((-a) % m)

\* registers[currentIndex] is in range
InRange(i) == 0 <= i /\ i < REGISTERS

VMState(i, regs, status) == [currentIndex |-> i, registers |-> regs, status |-> status]

\* "registers[currentIndex] += n" (IncNode.Code)
IncFragment(st, n) ==
  IF ~InRange(st.currentIndex) THEN [st EXCEPT !.status = "panic"]
  ELSE [st EXCEPT !.registers[st.currentIndex] = (@ + n) % ByteRange]

\* "registers[currentIndex] -= n" (DecNode.Code)
DecFragment(st, n) ==
  IF ~InRange(st.currentIndex) THEN [st EXCEPT !.status = "panic"]
  ELSE [st EXCEPT !.registers[st.currentIndex] = (@ - n) % ByteRange]

\* "if currentIndex == 0 { currentIndex = REGISTERS-1 } else { currentIndex -= n }"
\* (PrevNode.Code)
PrevFragment(st, n) ==
  IF st.currentIndex = 0 THEN [st EXCEPT !.currentIndex = REGISTERS - 1]
  ELSE [st EXCEPT !.currentIndex = @ - n]

\* "currentIndex = (currentIndex + n) % REGISTERS" (NextNode.Code)
NextFragment(st, n) == [st EXCEPT !.currentIndex = GoRem(@ + n, REGISTERS)]

Fragment(kind, st, n) ==
  IF st.status # "run" THEN st
  ELSE CASE kind = "Inc" -> IncFragment(st, n)
         [] kind = "Dec" -> DecFragment(st, n)
         [] kind = "Prev" -> PrevFragment(st, n)
         [] kind = "Next" -> NextFragment(st, n)

\* the fragment of a node of count 1, executed n times in succession: what
\* the unmerged token sequence would have emitted
RECURSIVE Unrolled(_, _, _)
Unrolled(kind, st, n) ==
  IF n = 0 THEN st ELSE Unrolled(kind, Fragment(kind, st, 1), n - 1)

NoExec == [kind |-> "none", count |-> 0, before |-> 0, unrolled |-> VMState(0, <<>>, "off")]

-----------------------------------------------------------------------------
(* The pipeline as main drives it: Parse (Tokenize, then ParseTokens), and *)
(* Encode when Parse returned no error.                                    *)

Inputs ==
  UNION {[1..n -> Alphabet] : n \in 0..MaxLen}
  \cup UNION {[1..n -> NestAlphabet] : n \in 0..MaxNestLen}

NotRun == [status |-> "none", Nodes |-> <<>>, skip |-> 0, FaultyNode |-> NoNode,
           Message |-> "", panic |-> ""]
NoCode == [status |-> "none", lines |-> <<>>]

\* the state of a virtual machine that has not started
VMIdle ==
  /\ currentIndex = 0
  /\ registers = <<>>
  /\ vmStatus = "off"
  /\ steps = 0
  /\ lastExec = NoExec

Init ==
  /\ input \in Inputs
  /\ pc = "source"
  /\ tokens = EmptyTokenList
  /\ result = NotRun
  /\ code = NoCode
  /\ VMIdle

DoTokenize ==
  /\ pc = "source"
  /\ tokens' = Tokenize(input)
  /\ pc' = "tokens"
  /\ UNCHANGED <<input, result, code>>
  /\ UNCHANGED vmVars

DoParseTokens ==
  /\ pc = "tokens"
  /\ result' = [ParseTokens(tokens, 0) EXCEPT !.skip = 0]
  /\ pc' = "parsed"
  /\ UNCHANGED <<input, tokens, code>>
  /\ UNCHANGED vmVars

DoEncode ==
  /\ pc = "parsed"
  /\ result.status = "ok"
  /\ code' = Encode(result.Nodes)
  /\ pc' = "encoded"
  /\ UNCHANGED <<input, tokens, result>>
  /\ UNCHANGED vmVars

Next == DoTokenize \/ DoParseTokens \/ DoEncode

Spec == Init /\ [][Next]_vars

-----------------------------------------------------------------------------
(* The virtual machine running the emitted fragments *)

InitVM ==
  /\ input = <<>>
  /\ pc = "emitted"
  /\ tokens = EmptyTokenList
  /\ result = NotRun
  /\ code = NoCode
  /\ currentIndex = 0
  /\ registers = [i \in 0..(REGISTERS - 1) |-> 0]
  /\ vmStatus = "run"
  /\ steps = 0
  /\ lastExec = NoExec

\* one fragment of a node of the given kind and count runs
Exec(kind, n) ==
  LET st == VMState(currentIndex, registers, vmStatus)
      new == Fragment(kind, st, n)
  IN /\ vmStatus = "run"
     /\ steps < MaxSteps
     /\ currentIndex' = new.currentIndex
     /\ registers' = new.registers
     /\ vmStatus' = new.status
     /\ steps' = steps + 1
     /\ lastExec' = [kind |-> kind, count |-> n, before |-> currentIndex,
                     unrolled |-> Unrolled(kind, st, n)]
     /\ UNCHANGED pipeVars

ExecInc == \E n \in 1..MaxCount : Exec("Inc", n)
ExecDec == \E n \in 1..MaxCount : Exec("Dec", n)
ExecPrev == \E n \in 1..MaxCount : Exec("Prev", n)
ExecNext == \E n \in 1..MaxCount : Exec("Next", n)

NextVM == ExecInc \/ ExecDec \/ ExecPrev \/ ExecNext

SpecVM == InitVM /\ [][NextVM]_vars

-----------------------------------------------------------------------------
(* What the claims speak of, computed from the source text and the token   *)
(* list alone, without the parser.                                         *)

Openers == {"[", "{"}
Closers == {"]", "}"}
CloserOf(c) == IF c = "[" THEN "]" ELSE "}"
Markers == {"LoopOpen", "LoopClose", "FuncOpen", "FuncClose"}

\* the byte offset of the k-th character of s
RECURSIVE ByteOffset(_, _)
ByteOffset(s, k) == IF k <= 1 THEN 0 ELSE ByteOffset(s, k - 1) + RuneLen(s[k - 1])

\* the openers still open before the k-th character, innermost last; a
\* closer closes the innermost open construct whatever its kind, and a closer
\* at depth 0 closes nothing
RECURSIVE OpenBefore(_, _)
OpenBefore(s, k) ==
  IF k <= 1 THEN <<>>
  ELSE LET st == OpenBefore(s, k - 1)
           c == s[k - 1]
       IN IF c \in Openers THEN Append(st, c)
          ELSE IF c \in Closers /\ Len(st) > 0 THEN SubSeq(st, 1, Len(st) - 1)
          ELSE st

Depth(s, k) == Len(OpenBefore(s, k))

\* every opener has its own kind's closer at the same depth, and no closer
\* is without its opener
WellBracketed(s) ==
  /\ \A k \in 1..Len(s) :
       s[k] \in Closers =>
         LET st == OpenBefore(s, k)
         IN Len(st) > 0 /\ CloserOf(st[Len(st)]) = s[k]
  /\ Depth(s, Len(s) + 1) = 0

\* the closers at nesting depth 0
DepthZeroClosers(s) == {k \in 1..Len(s) : s[k] \in Closers /\ Depth(s, k) = 0}
Leftmost(S) == CHOOSE k \in S : \A j \in S : k <= j

\* some opener is still open at the end of the text
UnclosedAtEnd(s) == Depth(s, Len(s) + 1) > 0

\* the closers met inside a construct while no construct of their own kind
\* is open: the "}" of "[+}" and the "]" of "{+]"
ForeignClosers(s) ==
  {k \in 1..Len(s) :
     /\ s[k] \in Closers
     /\ LET st == OpenBefore(s, k)
        IN Len(st) > 0 /\ \A j \in 1..Len(st) : CloserOf(st[j]) # s[k]}

\* a node without what the claims leave open: a container's span, the
\* preamble's flags
RECURSIVE Shape(_)
Shape(n) ==
  IF n.kind \in {"Loop", "Function"}
  THEN [kind |-> n.kind, start |-> 0, end |-> 0, count |-> 0,
        Nodes |-> [i \in 1..Len(n.Nodes) |-> Shape(n.Nodes[i])]]
  ELSE [kind |-> n.kind, start |-> n.start, end |-> n.end, count |-> n.count,
        Nodes |-> <<>>]

Shapes(nodes) == [i \in 1..Len(nodes) |-> Shape(nodes[i])]

\* the tree of a well-bracketed token list: the code-producing tokens between
\* an opener and its matching closer become the children of one node
RECURSIVE Nested(_, _, _)
Nested(toks, k, stack) ==
  IF k > Len(toks) THEN stack[1].Nodes
  ELSE LET n == toks[k]
           top == Len(stack)
       IN IF n.kind \in {"LoopOpen", "FuncOpen"}
          THEN Nested(toks, k + 1,
                      Append(stack, [kind |-> IF n.kind = "LoopOpen" THEN "Loop"
                                              ELSE "Function", Nodes |-> <<>>]))
          ELSE IF n.kind \in {"LoopClose", "FuncClose"}
          THEN Nested(toks, k + 1,
                      [SubSeq(stack, 1, top - 1) EXCEPT ![top - 1].Nodes =
                         Append(@, [kind |-> stack[top].kind, start |-> 0,
                                    end |-> 0, count |-> 0,
                                    Nodes |-> stack[top].Nodes])])
          ELSE Nested(toks, k + 1, [stack EXCEPT ![top].Nodes = Append(@, Shape(n))])

NestedTree(toks) == Nested(toks, 1, <<[kind |-> "top", Nodes |-> <<>>]>>)

\* a node of the given kind occurs in the tree, at any depth
RECURSIVE Occurs(_, _)
Occurs(kinds, nodes) ==
  \E i \in 1..Len(nodes) :
    nodes[i].kind \in kinds \/ Occurs(kinds, nodes[i].Nodes)

\* every node of the tree, at any depth, is code-producing
RECURSIVE AllEncodable(_)
AllEncodable(nodes) ==
  \A i \in 1..Len(nodes) :
    /\ nodes[i].kind \notin Markers
    /\ Encodable(nodes[i].kind)
    /\ AllEncodable(nodes[i].Nodes)

\* the input's recognized characters, in order
RECURSIVE RecognizedOf(_)
RecognizedOf(s) ==
  IF s = <<>> THEN <<>>
  ELSE LET r == RecognizedOf(SubSeq(s, 1, Len(s) - 1))
       IN IF s[Len(s)] \in Recognized THEN Append(r, s[Len(s)]) ELSE r

Countable == {"+", "-", "<", ">"}

\* the run-length encoding of a character sequence: a node begins at each
\* place that does not continue a run of a countable character
RunStarts(f) ==
  {k \in 1..Len(f) : k = 1 \/ f[k] \notin Countable \/ f[k - 1] # f[k]}

RunLength(f, k) ==
  Cardinality({j \in k..Len(f) : \A m \in k..j : f[m] = f[k]})

RECURSIVE RunsFrom(_, _)
RunsFrom(f, k) ==
  IF k > Len(f) THEN <<>>
  ELSE IF k \in RunStarts(f)
       THEN <<[kind |-> KindOf(f[k]),
               count |-> IF f[k] \in Countable THEN RunLength(f, k) ELSE 0]>>
            \o RunsFrom(f, k + 1)
       ELSE RunsFrom(f, k + 1)

RunLengthEncoding(s) == RunsFrom(RecognizedOf(s), 1)

\* the operator tokens of a token list: all but the preamble and postamble
OperatorTokens(t) ==
  [i \in 1..(Len(t.Nodes) - 2) |->
     [kind |-> t.Nodes[i + 1].kind, count |-> t.Nodes[i + 1].count]]

\* the packages the emitted header imports, and those the emitted
\* statements refer to
Imports(lines) == {lines[i].arg : i \in {j \in 1..Len(lines) : lines[j].stmt = "import"}}
Referenced(lines) == UNION {lines[i].uses : i \in 1..Len(lines)}

-----------------------------------------------------------------------------
(* The claims *)

\* C1: for every well-bracketed input Parse succeeds (a tree, no error, no
\* abort), and the tree is the nesting of the token list: every Loop and
\* FunctionDef node has as children exactly the code-producing tokens
\* between its opener and its matching closer, in order, nested constructs
\* replaced by their own node, no token skipped or parsed twice.
C1_WellBracketedParses ==
  (pc = "parsed" /\ WellBracketed(input)) =>
     /\ result.status = "ok"
     /\ Shapes(result.Nodes) = NestedTree(tokens.Nodes)

\* C2: when some closer occurs at nesting depth 0, Parse returns no tree and
\* a ParseError whose FaultyNode is the leftmost such closer, with the span
\* [i, i+1) of its byte offset i, and nothing after that closer influences
\* the result.
C2_DepthZeroCloserReported ==
  (pc = "parsed" /\ DepthZeroClosers(input) # {}) =>
     LET k == Leftmost(DepthZeroClosers(input))
     IN /\ result.status = "error"
        /\ result.Nodes = <<>>
        /\ result.FaultyNode.kind = KindOf(input[k])
        /\ result.FaultyNode.start = ByteOffset(input, k)
        /\ result.FaultyNode.end = ByteOffset(input, k) + 1
        /\ result = Parse(SubSeq(input, 1, k))

C4_FlagsFollowTree ==
  (pc = "parsed" /\ WellBracketed(input)) =>
     /\ result.panic \notin {"p.Nodes[0]: index out of range",
                             "p.Nodes[0].(*PreambleNode): interface conversion"}
     /\ result.status = "ok" =>
          /\ result.Nodes[1].UseIO <=> Occurs({"Input"}, result.Nodes)
          /\ result.Nodes[1].UseFmt <=> Occurs({"Output"}, result.Nodes)

\* C5: when an opener is still unclosed at the end of the input, Parse does
\* not return a successful tree.
C5_UnclosedIsError ==
  (pc = "parsed" /\ UnclosedAtEnd(input)) => result.status # "ok"

\* C6: every node of a tree that Parse returns, at every depth, is
\* code-producing (no LoopOpen, LoopClose, FuncOpen or FuncClose), and so
\* Encode and the unchecked casts of LoopNode.Code and FunctionNode.Code
\* do not fail on it.
C6_OnlyCodeProducingNodes ==
  /\ (pc \in {"parsed", "encoded"} /\ result.status = "ok") =>
        AllEncodable(result.Nodes)
  /\ pc = "encoded" => code.status = "ok"

\* a tree with a function definition inside a loop was encoded
C6_Witness ==
  /\ pc = "encoded"
  /\ code.status = "ok"
  /\ \E i \in 1..Len(result.Nodes) :
       /\ result.Nodes[i].kind = "Loop"
       /\ \E j \in 1..Len(result.Nodes[i].Nodes) :
            /\ result.Nodes[i].Nodes[j].kind = "Function"
            /\ Len(result.Nodes[i].Nodes[j].Nodes) > 0

\* C7: a closer met inside a construct while no construct of its own kind is
\* open (the "}" of "[+}") is not accepted as the end of the other kind's
\* construct: Parse does not return a tree for such an input.
C7_ForeignCloserRejected ==
  (pc = "parsed" /\ ForeignClosers(input) # {}) => result.status # "ok"

\* C8: in every state of the virtual machine the cursor is a valid tape
\* index, 0 <= currentIndex < REGISTERS.
C8_CursorInRange ==
  vmStatus \in {"run", "panic"} => InRange(currentIndex)

\* C9: from a state with the cursor in range, the one fragment of a node of
\* count N leaves the cursor and the tape that the count-1 fragment of the
\* same kind leaves when executed N times.
C9_MergedEqualsUnrolled ==
  (lastExec.kind # "none" /\ InRange(lastExec.before)) =>
     VMState(currentIndex, registers, vmStatus) = lastExec.unrolled

\* C10: the packages the emitted header imports are exactly the packages
\* the emitted statements refer to.
C10_ImportsMatchReferences ==
  (pc = "encoded" /\ code.status = "ok") =>
     Imports(code.lines) = Referenced(code.lines)

====
